---- MODULE Spec2Model ----
(***************************************************************************)
(* EventCard: the countdown to an event and the image carousel of a card.  *)
(*                                                                         *)
(* Strings are sequences of one-character strings, so that split(':') and  *)
(* Number() are computed and not assumed.  Instants are milliseconds since *)
(* the model epoch 2025-01-01T00:00:00Z (TLC's integers are 32 bits wide;  *)
(* the code only ever uses differences of instants).  A JavaScript number  *)
(* is a record [nan, v]: NaN is [nan |-> TRUE, v |-> 0].                   *)
(***************************************************************************)
EXTENDS Integers, Sequences, FiniteSets, TLC

VARIABLES
    eventDate,          \* prop eventDate (string)
    eventTime,          \* prop eventTime (string)
    image,              \* prop image ("" when absent)
    images,             \* prop images (sequence of image references)
    currentImageIndex,  \* useState(0)
    isImageFullscreen,  \* useState(false)
    countdown,          \* useState({days, hrs, mins, secs, isExpired})
    config,             \* useState<SiteConfig | null>(null)
    phase,              \* "init": hooks created, effects not yet run;
                        \* "active": effects have run; "unmounted"
    fetch,              \* the site_configuration request: idle/pending/done
    timers,             \* the live setInterval handles, each with the
                        \* eventDate and eventTime its callback closed over
    cleanup,            \* the handle the registered effect cleanup clears
    nextTimerId,        \* the handle the next setInterval call returns
    now,                \* the wall clock read by new Date()
    tz,                 \* the local time zone's offset from UTC, in ms
    advances,           \* how many times the clock has been advanced
    lastCalc            \* what the last run of calculateTimeLeft read

vars == <<eventDate, eventTime, image, images, currentImageIndex,
          isImageFullscreen, countdown, config, phase, fetch, timers,
          cleanup, nextTimerId, now, tz, advances, lastCalc>>

----------------------------------------------------------------------------
(* Bounds of the model.                                                    *)

MaxStrLen == 2      \* eventTime ranges over every string up to this length
MaxAdvances == 2    \* clock advances in one behaviour
MaxEffects == 3     \* runs of the countdown effect in one behaviour
MaxImages == 2      \* length of the images prop

----------------------------------------------------------------------------
(* JavaScript numbers, strings and dates.                                  *)

NaN == [nan |-> TRUE, v |-> 0]
Num(n) == [nan |-> FALSE, v |-> n]

Digits == {"0", "1", "2", "3", "4", "5", "6", "7", "8", "9"}
DigitVal(c) == CASE c = "0" -> 0 [] c = "1" -> 1 [] c = "2" -> 2
                 [] c = "3" -> 3 [] c = "4" -> 4 [] c = "5" -> 5
                 [] c = "6" -> 6 [] c = "7" -> 7 [] c = "8" -> 8
                 [] c = "9" -> 9

IsDigits(s) == \A i \in 1..Len(s) : s[i] \in Digits

RECURSIVE DecimalValue(_)
DecimalValue(s) ==
    IF s = <<>> THEN 0
    ELSE 10 * DecimalValue(SubSeq(s, 1, Len(s) - 1)) + DigitVal(s[Len(s)])

\* Number(s) for s over digits and letters: "" is 0, a run of digits is its
\* decimal value, anything else is NaN.
ToNumber(s) == IF IsDigits(s) THEN Num(DecimalValue(s)) ELSE NaN

\* s.split(sep): the pieces of s between the separators, at least one.
RECURSIVE Split(_, _)
Split(s, sep) ==
    IF \A i \in 1..Len(s) : s[i] # sep THEN <<s>>
    ELSE LET k == CHOOSE i \in 1..Len(s) :
                      s[i] = sep /\ \A j \in 1..(i - 1) : s[j] # sep
         IN  <<SubSeq(s, 1, k - 1)>> \o Split(SubSeq(s, k + 1, Len(s)), sep)

MsPerSecond == 1000
MsPerMinute == 1000 * 60
MsPerHour == 1000 * 60 * 60
MsPerDay == 1000 * 60 * 60 * 24

\* Days from 1970-01-01 to the civil date y-m-d (proleptic Gregorian).
DaysFromCivil(y, m, d) ==
    LET yy == IF m <= 2 THEN y - 1 ELSE y
        era == yy \div 400
        yoe == yy - era * 400
        mp == (m + 9) % 12
        doy == (153 * mp + 2) \div 5 + d - 1
        doe == yoe * 365 + yoe \div 4 - yoe \div 100 + doy
    IN  era * 146097 + doe - 719468

IsLeap(y) == (y % 4 = 0 /\ y % 100 # 0) \/ y % 400 = 0
DaysInMonth(y, m) ==
    IF m = 2 THEN (IF IsLeap(y) THEN 29 ELSE 28)
    ELSE IF m \in {4, 6, 9, 11} THEN 30 ELSE 31

EpochDays == DaysFromCivil(2025, 1, 1)

\* new Date(s).getTime() for a date-only string: "YYYY-MM-DD" is midnight
\* UTC of that day; a string that is not a date is NaN (Invalid Date).
NewDate(s) ==
    IF /\ Len(s) = 10
       /\ s[5] = "-" /\ s[8] = "-"
       /\ IsDigits(SubSeq(s, 1, 4))
       /\ IsDigits(SubSeq(s, 6, 7))
       /\ IsDigits(SubSeq(s, 9, 10))
    THEN LET y == DecimalValue(SubSeq(s, 1, 4))
             m == DecimalValue(SubSeq(s, 6, 7))
             d == DecimalValue(SubSeq(s, 9, 10))
         IN  IF m \in 1..12 /\ d \in 1..DaysInMonth(y, m)
             THEN Num((DaysFromCivil(y, m, d) - EpochDays) * MsPerDay)
             ELSE NaN
    ELSE NaN

\* date.setHours(h, m, 0, 0) in the zone at offset: the local calendar day
\* of the date is kept and its time of day replaced; hours and minutes out
\* of range carry into the following days; NaN anywhere gives Invalid Date.
SetHours(date, h, m, offset) ==
    IF date.nan \/ h.nan \/ m.nan THEN NaN
    ELSE LET local == date.v + offset
             day == local \div MsPerDay
         IN  Num(day * MsPerDay + h.v * MsPerHour + m.v * MsPerMinute - offset)

----------------------------------------------------------------------------
(* calculateTimeLeft.                                                      *)

Expired == [days |-> 0, hrs |-> 0, mins |-> 0, secs |-> 0, isExpired |-> TRUE]

\* The instant the countdown runs to: targetDate.getTime().
TargetInstant(date, time, offset) ==
    LET parts == Split(time, ":")
        timeHours == ToNumber(parts[1])
        timeMinutes == IF Len(parts) >= 2 THEN ToNumber(parts[2]) ELSE NaN
    IN  SetHours(NewDate(date), timeHours, timeMinutes, offset)

\* Decompose with the remainders forgotten.
DecomposeNoRemainder(difference) ==
    [days |-> difference \div MsPerDay,
     hrs |-> difference \div MsPerHour,
     mins |-> difference \div MsPerMinute,
     secs |-> difference \div MsPerSecond,
     isExpired |-> FALSE]

Decompose(difference) ==
    [days |-> difference \div MsPerDay,
     hrs |-> (difference % MsPerDay) \div MsPerHour,
     mins |-> (difference % MsPerHour) \div MsPerMinute,
     secs |-> (difference % MsPerMinute) \div MsPerSecond,
     isExpired |-> FALSE]

\* IsPast with the target instant itself left out.
IsPastStrict(difference) == difference < 0

IsPast(difference) == difference <= 0

\* calculateTimeLeft reporting, once the target has passed, the time since.
calculateTimeLeftElapsed(date, time, offset, clock) ==
    IF date = <<>> \/ time = <<>> THEN Expired
    ELSE LET targetDate == TargetInstant(date, time, offset)
         IN  IF targetDate.nan THEN Expired
             ELSE IF IsPast(targetDate.v - clock)
                  THEN [Decompose(clock - targetDate.v) EXCEPT !.isExpired = TRUE]
             ELSE Decompose(targetDate.v - clock)

\* The value calculateTimeLeft passes to setCountdown.
calculateTimeLeft(date, time, offset, clock) ==
    IF date = <<>> \/ time = <<>> THEN Expired
    ELSE LET targetDate == TargetInstant(date, time, offset)
         IN  IF targetDate.nan THEN Expired
             ELSE IF IsPast(targetDate.v - clock) THEN Expired
             ELSE Decompose(targetDate.v - clock)

----------------------------------------------------------------------------
(* The carousel.                                                           *)

allImages == IF image # "" THEN <<image>> \o images ELSE images
\* hasMultipleImages off by one.
hasAnyImage == Len(allImages) > 0

hasMultipleImages == Len(allImages) > 1

\* NextIndex without the wraparound.
NextIndexNoWrap(prev, n) == prev + 1

NextIndex(prev, n) == (prev + 1) % n
\* PreviousIndex without the wraparound.
PreviousIndexNoWrap(prev, n) == prev - 1

PreviousIndex(prev, n) == IF prev = 0 THEN n - 1 ELSE prev - 1

----------------------------------------------------------------------------
(* Inputs.                                                                 *)

NoConfig == "null"
ConfigRows == {"#1a73e8"}

TimeAlphabet == {"1", "4", ":", "a"}

RECURSIVE Strings(_)
Strings(n) ==
    IF n = 0 THEN {<<>>}
    ELSE LET shorter == Strings(n - 1)
         IN  shorter \cup {Append(s, c) : s \in {t \in shorter : Len(t) = n - 1},
                                          c \in TimeAlphabet}

NamedTimes == {<<"a", "b", "c">>, <<"1", "4">>, <<"1", "4", ":">>, <<"2", "5", ":", "7", "0">>, <<"1", "4", ":", "0", "0">>, <<"0", "0", ":", "0", "0">>, <<"2", "3", ":", "5", "9">>, <<"1", "4", ":", "0", "0", ":", "3", "0">>}

EventTimes == Strings(MaxStrLen) \cup NamedTimes

D_0103 == <<"2", "0", "2", "5", "-", "0", "1", "-", "0", "3">>
D_0101 == <<"2", "0", "2", "5", "-", "0", "1", "-", "0", "1">>
D_1301 == <<"2", "0", "2", "5", "-", "1", "3", "-", "0", "1">>
EventDates == {<<>>, <<"a", "b", "c">>, D_0103, D_1301}

\* The (eventDate, eventTime) pairs the card is given and re-given.
Targets == {<<D_0103, <<"1", "4", ":", "0", "0">>>>, <<D_0103, <<"2", "5", ":", "7", "0">>>>,
            <<D_0101, <<"0", "0", ":", "0", "0">>>>, <<D_0103, <<>> >>}

TimeZoneOffsets == {0 - 3 * MsPerHour, 0}

\* 2025-01-03T14:00:00Z is the target of D_0103 at 14:00 in UTC.
StartInstants == {500,
                  2 * MsPerDay + 14 * MsPerHour - 2 * MsPerDay,
                  2 * MsPerDay + 14 * MsPerHour - 3661 * MsPerSecond}
ClockSteps == {MsPerSecond, 3661 * MsPerSecond, MsPerDay}

RECURSIVE Gallery(_)
Gallery(k) == IF k = 0 THEN <<>> ELSE Append(Gallery(k - 1), "extra")

----------------------------------------------------------------------------
(* The component.                                                          *)

NoCalc == [ran |-> FALSE, by |-> "none", eventDate |-> <<>>,
           eventTime |-> <<>>, now |-> 0]

\* The hooks as useState creates them, for the props and the environment
\* given.
Hooks(d, t, img, imgs, clock, offset) ==
    /\ eventDate = d
    /\ eventTime = t
    /\ image = img
    /\ images = imgs
    /\ currentImageIndex = 0
    /\ isImageFullscreen = FALSE
    /\ countdown = [days |-> 0, hrs |-> 0, mins |-> 0, secs |-> 0,
                    isExpired |-> FALSE]
    /\ config = NoConfig
    /\ phase = "init"
    /\ fetch = "idle"
    /\ timers = {}
    /\ cleanup = 0
    /\ nextTimerId = 1
    /\ now = clock
    /\ tz = offset
    /\ advances = 0
    /\ lastCalc = NoCalc

Init ==
    \E p \in Targets, img \in {"", "cover"}, k \in 0..MaxImages,
       clock \in StartInstants, offset \in TimeZoneOffsets :
        Hooks(p[1], p[2], img, Gallery(k), clock, offset)

\* An effect that returns no cleanup.
ClearNothing(ts, handle) == ts

\* clearInterval(timer): the cleanup the effect returned.
ClearInterval(ts, handle) == {t \in ts : t.id # handle}

\* setInterval(calculateTimeLeft, 1000): the callback keeps the eventDate
\* and eventTime of the render whose effect created it.
SetInterval(ts, handle, d, t) ==
    ts \cup {[id |-> handle, eventDate |-> d, eventTime |-> t]}

\* The body of the countdown effect for the props (d, t): the immediate
\* calculateTimeLeft(), then setInterval, then the cleanup is registered.
RunCountdownEffect(ts, d, t) ==
    /\ countdown' = calculateTimeLeft(d, t, tz, now)
    /\ lastCalc' = [ran |-> TRUE, by |-> "effect", eventDate |-> d,
                    eventTime |-> t, now |-> now]
    /\ timers' = SetInterval(ts, nextTimerId, d, t)
    /\ cleanup' = nextTimerId
    /\ nextTimerId' = nextTimerId + 1

\* Mount with the interval started and the immediate calculateTimeLeft()
\* left out.
MountTimerOnly ==
    /\ phase = "init"
    /\ phase' = "active"
    /\ fetch' = "pending"
    /\ timers' = SetInterval(timers, nextTimerId, eventDate, eventTime)
    /\ cleanup' = nextTimerId
    /\ nextTimerId' = nextTimerId + 1
    /\ UNCHANGED <<eventDate, eventTime, image, images, currentImageIndex,
                   isImageFullscreen, countdown, config, now, tz, advances,
                   lastCalc>>

\* The effects of the first commit: fetchConfig() is started, then the
\* countdown effect runs.
Mount ==
    /\ phase = "init"
    /\ phase' = "active"
    /\ fetch' = "pending"
    /\ RunCountdownEffect(timers, eventDate, eventTime)
    /\ UNCHANGED <<eventDate, eventTime, image, images, currentImageIndex,
                   isImageFullscreen, config, now, tz, advances>>

\* The request for the site_configuration row answers, with a row or with
\* none; setConfig on a card that is gone changes nothing.
FetchResolve(data) ==
    /\ fetch = "pending"
    /\ fetch' = "done"
    /\ config' = IF data # NoConfig /\ phase = "active" THEN data ELSE config
    /\ UNCHANGED <<eventDate, eventTime, image, images, currentImageIndex,
                   isImageFullscreen, countdown, phase, timers, cleanup,
                   nextTimerId, now, tz, advances, lastCalc>>

\* A live interval fires: its calculateTimeLeft runs to completion.
Tick(t) ==
    /\ t \in timers
    /\ countdown' = calculateTimeLeft(t.eventDate, t.eventTime, tz, now)
    /\ lastCalc' = [ran |-> TRUE, by |-> "tick", eventDate |-> t.eventDate,
                    eventTime |-> t.eventTime, now |-> now]
    /\ UNCHANGED <<eventDate, eventTime, image, images, currentImageIndex,
                   isImageFullscreen, config, phase, fetch, timers, cleanup,
                   nextTimerId, tz, now, advances>>

\* The card is rendered with another eventDate or eventTime: the effect's
\* dependencies differ, so its cleanup runs and the effect runs again.
ChangeTarget(d, t) ==
    /\ phase = "active"
    /\ <<d, t>> # <<eventDate, eventTime>>
    /\ nextTimerId <= MaxEffects
    /\ eventDate' = d
    /\ eventTime' = t
    /\ RunCountdownEffect(ClearInterval(timers, cleanup), d, t)
    /\ UNCHANGED <<image, images, currentImageIndex, isImageFullscreen,
                   config, phase, fetch, now, tz, advances>>

\* Unmount of a card whose effect leaves its interval running.
UnmountWithoutCleanup ==
    /\ phase = "active"
    /\ phase' = "unmounted"
    /\ UNCHANGED <<eventDate, eventTime, image, images, currentImageIndex,
                   isImageFullscreen, countdown, config, fetch, timers,
                   cleanup, nextTimerId, now, tz, advances, lastCalc>>

\* The card is removed: the effect's cleanup runs.
Unmount ==
    /\ phase = "active"
    /\ phase' = "unmounted"
    /\ timers' = ClearInterval(timers, cleanup)
    /\ cleanup' = 0
    /\ UNCHANGED <<eventDate, eventTime, image, images, currentImageIndex,
                   isImageFullscreen, countdown, config, fetch, nextTimerId,
                   now, tz, advances, lastCalc>>

\* Time passes.
ClockAdvance(d) ==
    /\ advances < MaxAdvances
    /\ advances' = advances + 1
    /\ now' = now + d
    /\ UNCHANGED <<eventDate, eventTime, image, images, currentImageIndex,
                   isImageFullscreen, countdown, config, phase, fetch, timers,
                   cleanup, nextTimerId, tz, lastCalc>>

\* What the card renders: nothing without the configuration row, the card
\* image when there is one, the overlay when fullscreen, the arrows in the
\* overlay when there are several images.
Rendered == phase = "active" /\ config # NoConfig
CardImageShown == Rendered /\ Len(allImages) > 0
OverlayShown == Rendered /\ isImageFullscreen /\ Len(allImages) > 0
NavigationShown == OverlayShown /\ hasMultipleImages

\* A click on the card image or on the overlay's close button.
toggleImageFullscreen ==
    /\ CardImageShown \/ OverlayShown
    /\ isImageFullscreen' = ~isImageFullscreen
    /\ UNCHANGED <<eventDate, eventTime, image, images, currentImageIndex,
                   countdown, config, phase, fetch, timers, cleanup,
                   nextTimerId, now, tz, advances, lastCalc>>

\* A click on the overlay's right arrow.
nextImage ==
    /\ NavigationShown
    /\ currentImageIndex' = NextIndex(currentImageIndex, Len(allImages))
    /\ UNCHANGED <<eventDate, eventTime, image, images, isImageFullscreen,
                   countdown, config, phase, fetch, timers, cleanup,
                   nextTimerId, now, tz, advances, lastCalc>>

\* A click on the overlay's left arrow.
previousImage ==
    /\ NavigationShown
    /\ currentImageIndex' = PreviousIndex(currentImageIndex, Len(allImages))
    /\ UNCHANGED <<eventDate, eventTime, image, images, isImageFullscreen,
                   countdown, config, phase, fetch, timers, cleanup,
                   nextTimerId, now, tz, advances, lastCalc>>

Next ==
    \/ Mount
    \/ \E data \in ConfigRows \cup {NoConfig} : FetchResolve(data)
    \/ \E t \in timers : Tick(t)
    \/ \E p \in Targets : ChangeTarget(p[1], p[2])
    \/ Unmount
    \/ \E d \in ClockSteps : ClockAdvance(d)
    \/ toggleImageFullscreen
    \/ nextImage
    \/ previousImage

Spec == Init /\ [][Next]_vars

\* The countdown alone, over every eventDate and eventTime of the input
\* sets, on a card without images whose props stay as given.
InitCountdown ==
    \E d \in EventDates, t \in EventTimes, clock \in StartInstants,
       offset \in TimeZoneOffsets :
        Hooks(d, t, "", <<>>, clock, offset)

NextCountdown ==
    \/ Mount
    \/ \E t \in timers : Tick(t)
    \/ Unmount
    \/ \E d \in ClockSteps : ClockAdvance(d)

SpecCountdown == InitCountdown /\ [][NextCountdown]_vars

----------------------------------------------------------------------------
(* Properties.                                                             *)

N == Len(allImages)

\* The target of the props, and whether it is a valid instant.
Target == TargetInstant(eventDate, eventTime, tz)
ValidTarget == eventDate # <<>> /\ eventTime # <<>> /\ ~Target.nan

\* A step in which calculateTimeLeft runs.
Computes == Mount \/ \E t \in timers : Tick(t)

\* C1: for a fixed image sequence of length N > 0, after any sequence of
\* nextImage, previousImage and toggleImageFullscreen, currentImageIndex is
\* an integer with 0 <= currentImageIndex < N.
C1_IndexInRange == N > 0 => currentImageIndex \in 0..(N - 1)

C1_Witness ==
    N = 3 /\ currentImageIndex = 2 /\ ~isImageFullscreen

\* C2: in every reachable countdown state, the initial one and the one
\* after every run of calculateTimeLeft, isExpired implies that days, hrs,
\* mins and secs are all 0.
C2_ExpiredIsZero ==
    countdown.isExpired =>
        /\ countdown.days = 0
        /\ countdown.hrs = 0
        /\ countdown.mins = 0
        /\ countdown.secs = 0

C2_Witness ==
    /\ lastCalc.by = "tick"
    /\ countdown.isExpired
    /\ ValidTarget
    /\ lastCalc.now - Target.v >= MsPerDay

\* C3: once the card is unmounted (the effect cleanup has run) no interval
\* is live, so no tick runs calculateTimeLeft, and the countdown is never
\* written again.
C3_NoTickAfterTeardown ==
    [][phase = "unmounted" =>
          /\ timers = {}
          /\ countdown' = countdown
          /\ lastCalc' = lastCalc]_vars

C3_Witness ==
    /\ phase = "unmounted"
    /\ lastCalc.by = "tick"
    /\ now > lastCalc.now
    /\ fetch = "done"

WellFormedTime(s) ==
    LET parts == Split(s, ":")
    IN  /\ Len(parts) = 2
        /\ parts[1] # <<>> /\ IsDigits(parts[1])
        /\ parts[2] # <<>> /\ IsDigits(parts[2])
        /\ DecimalValue(parts[1]) \in 0..23
        /\ DecimalValue(parts[2]) \in 0..59

\* C5: whenever the date is unparseable or the time of day is absent or
\* malformed, a run of calculateTimeLeft yields exactly the expired state.
C5_MalformedYieldsExpired ==
    (lastCalc.ran /\ (NewDate(lastCalc.eventDate).nan
                        \/ ~WellFormedTime(lastCalc.eventTime)))
        => countdown = Expired

\* C6: with a fixed valid target and a clock that never goes back, every
\* run of calculateTimeLeft at or after the target sets the countdown to
\* exactly the expired state, and a countdown that is expired is expired
\* after every later step.
C6_ExpiredAtTargetAndAfter ==
    [][/\ (Computes /\ ValidTarget /\ now >= Target.v)
             => countdown' = Expired
       /\ (lastCalc.ran /\ countdown.isExpired) => countdown'.isExpired]_vars

C6_Witness ==
    /\ ValidTarget
    /\ lastCalc.by = "tick"
    /\ lastCalc.now = Target.v
    /\ countdown = Expired

\* C7: for every valid target and every now before it, a run of
\* calculateTimeLeft yields isExpired false, days >= 0, hrs in 0..23, mins
\* and secs in 0..59, and days*86400 + hrs*3600 + mins*60 + secs equal to
\* floor(difference / 1000); 3661 s give {0,1,1,1}, 2 days give {2,0,0,0}.
C7_Decomposition ==
    LET target == TargetInstant(lastCalc.eventDate, lastCalc.eventTime, tz)
        difference == target.v - lastCalc.now
    IN  (/\ lastCalc.ran
         /\ lastCalc.eventDate # <<>> /\ lastCalc.eventTime # <<>>
         /\ ~target.nan
         /\ difference > 0)
        => /\ ~countdown.isExpired
           /\ countdown.days >= 0
           /\ countdown.hrs \in 0..23
           /\ countdown.mins \in 0..59
           /\ countdown.secs \in 0..59
           /\ countdown.days * 86400 + countdown.hrs * 3600
                + countdown.mins * 60 + countdown.secs = difference \div 1000
           /\ difference \div 1000 = 3661 =>
                 countdown = [days |-> 0, hrs |-> 1, mins |-> 1, secs |-> 1,
                              isExpired |-> FALSE]
           /\ difference = 2 * 86400 * 1000 =>
                 countdown = [days |-> 2, hrs |-> 0, mins |-> 0, secs |-> 0,
                              isExpired |-> FALSE]

C7_Witness ==
    /\ lastCalc.ran
    /\ ValidTarget
    /\ Target.v - lastCalc.now = 3661 * 1000
    /\ countdown.hrs = 1

\* N applications of NextIndex.
RECURSIVE Advances(_, _, _)
Advances(k, i, n) == IF k = 0 THEN i ELSE Advances(k - 1, NextIndex(i, n), n)

\* C8: for N >= 1 and an index i in [0, N), nextImage sets the index to
\* (i + 1) mod N and previousImage to N - 1 when i = 0 and to i - 1
\* otherwise; previousImage undoes nextImage, N advances return to i, and
\* for N = 1 both leave the index at 0.
C8_AdvanceRetreat ==
    [][LET i == currentImageIndex
       IN  N >= 1 =>
             /\ nextImage => currentImageIndex' = (i + 1) % N
             /\ previousImage =>
                   currentImageIndex' = IF i = 0 THEN N - 1 ELSE i - 1
             /\ PreviousIndex(NextIndex(i, N), N) = i
             /\ Advances(N, i, N) = i
             /\ N = 1 => NextIndex(i, N) = 0 /\ PreviousIndex(i, N) = 0]_vars

C8_Witness ==
    N = 3 /\ currentImageIndex = 1 /\ isImageFullscreen

\* C9: with no image the fullscreen flag is never set and neither
\* nextImage nor previousImage is enabled, so the index stays 0 and no
\* modulo by 0 is computed; nextImage and previousImage are enabled only
\* when N > 1.
C9_NoImagesNoNavigation ==
    /\ N = 0 =>
          /\ ~isImageFullscreen
          /\ currentImageIndex = 0
          /\ ~ENABLED toggleImageFullscreen
          /\ ~ENABLED nextImage
          /\ ~ENABLED previousImage
    /\ (ENABLED nextImage \/ ENABLED previousImage) => N > 1

C9_Witness ==
    N = 0 /\ phase = "active" /\ config # NoConfig

\* C10: whenever the configuration row is there (the card is visible) the
\* countdown is the result of a run of calculateTimeLeft, not the initial
\* placeholder; while it is not there, no carousel or fullscreen operation
\* is enabled.
C10_ComputedBeforeVisible ==
    /\ config # NoConfig =>
          /\ lastCalc.ran
          /\ countdown = calculateTimeLeft(lastCalc.eventDate,
                                           lastCalc.eventTime, tz, lastCalc.now)
    /\ config = NoConfig =>
          /\ ~ENABLED toggleImageFullscreen
          /\ ~ENABLED nextImage
          /\ ~ENABLED previousImage
          /\ ~isImageFullscreen
          /\ currentImageIndex = 0

C10_Witness ==
    /\ config # NoConfig
    /\ lastCalc.by = "effect"
    /\ nextTimerId = 2

====
